---- MODULE Spec2Model ----
(***************************************************************************)
(* Memory search of the postgres message store: searchMessages and its     *)
(* helpers (query validation, embedding of the query text, metadata        *)
(* filter, mandatory constraints, sort and limit, scan, NaN filter, MMR    *)
(* rerank).  One call is followed from entry to return; the embedding      *)
(* provider and the storage engine are the two suspension points.          *)
(***************************************************************************)
EXTENDS Integers, Sequences, FiniteSets, TLC

\* ------------------------------------------------------------------ bounds
NumRows == 16         \* rows of the message table
MaxLimit == 2         \* largest limit argument a caller passes
MaxDate == 4          \* largest start_date / end_date a caller passes

\* ------------------------------------------------------- program constants
DefaultMemorySearchLimit == 10
DefaultMMRMultiplier == 2
\* lambda is a float32 in [0,1]; it is carried in tenths (5 is 0.5)
DefaultMMRLambda == 5

SearchTypeSimilarity == "similarity"
SearchTypeMMR == "mmr"

NoErr == "nil"
NilVec == <<>>        \* a nil []float32
NilQuery == [isNil |-> TRUE]

\* ------------------------------------------------------------------ floats
\* float64 with NaN: Dist of a scanned row
F(n) == [nan |-> FALSE, v |-> n]
NaN == [nan |-> TRUE, v |-> 0]
IsNaN(d) == d.nan
\* IEEE comparison: false as soon as one side is NaN
FloatLess(a, b) == ~a.nan /\ ~b.nan /\ a.v < b.v

\* ------------------------------------------------------- the message table
Sessions == {"s1", "s2"}
TagTable == << {"$.tag"}, {"$.status"}, {"$.tag", "$.status"}, {}, {"$.tag"} >>

\* row i of message JOIN message_embedding; undefScore marks a row whose
\* distance expression evaluates to NaN in the engine.  Rows 1 and 2 have
\* the same second component, so they tie under the query vector <<0, 1>>
Row(i) ==
    [ uuid |-> i,
      session_id |-> IF i % 7 = 0 THEN "s2" ELSE "s1",
      deleted |-> (i % 5 = 0),
      created_at |-> i,
      paths |-> TagTable[((i - 1) % Len(TagTable)) + 1],
      embedding |-> << i, IF i = 1 THEN NumRows - 2 ELSE NumRows - i >>,
      undefScore |-> (i % 6 = 3) ]

Table == { Row(i) : i \in 1..NumRows }

\* vectors the embedding provider can return for a text
QueryVectors == { <<1, 0>>, <<0, 1>> }

Dot(u, v) == u[1] * v[1] + u[2] * v[2]

\* ------------------------------------------------------------ JSON values
\* interface{} values of a metadata map, tagged by their dynamic type
JStr(s) == [t |-> "str", s |-> s]
JNum(n) == [t |-> "num", n |-> n]
JArr(a) == [t |-> "arr", a |-> a]
JObj(o) == [t |-> "obj", o |-> o]
JChan == [t |-> "chan"]            \* a value encoding/json cannot marshal
Absent == [t |-> "absent"]         \* the key is not in the map

LeafTag == JObj([jsonpath |-> JStr("$.tag")])
LeafStatus == JObj([jsonpath |-> JStr("$.status")])
WhereAnd == JObj([jsonpath |-> JStr("$.tag"), and |-> JArr(<<LeafStatus>>)])
WhereOr == JObj([or |-> JArr(<<LeafTag, LeafStatus>>)])
WherePayloads == { LeafTag, WhereAnd, WhereOr, JStr("bad"), JChan }

DateValues == { 2, MaxDate }

\* a map[string]interface{}; a nil map and an empty map are both <<>>
\* (len 0, no key found), which is all the code asks of them
MetaOf(w, s, e, o) ==
    (IF w = Absent THEN <<>> ELSE "where" :> w) @@
    (IF s = Absent THEN <<>> ELSE "start_date" :> s) @@
    (IF e = Absent THEN <<>> ELSE "end_date" :> e) @@
    (IF o = Absent THEN <<>> ELSE "topic" :> o)

Metadatas ==
    { MetaOf(w, s, e, o) :
        w \in WherePayloads \cup {Absent},
        s \in { JNum(d) : d \in DateValues } \cup {Absent},
        e \in { JNum(d) : d \in DateValues } \cup {Absent},
        o \in { JStr("x"), Absent } }

MapLen(m) == Cardinality(DOMAIN m)
HasKey(m, k) == k \in DOMAIN m

\* json.Marshal of an interface{} value
RECURSIVE MarshalOK(_)
MarshalOK(v) ==
    CASE v.t = "chan" -> FALSE
      [] v.t = "arr" -> \A i \in 1..Len(v.a) : MarshalOK(v.a[i])
      [] v.t = "obj" -> \A k \in DOMAIN v.o : MarshalOK(v.o[k])
      [] OTHER -> TRUE

\* json.Unmarshal into a JSONQuery: a JSON object whose "jsonpath" is a string
\* and whose "and"/"or" are arrays of such objects; other keys are ignored
RECURSIVE UnmarshalOK(_)
UnmarshalOK(v) ==
    /\ v.t = "obj"
    /\ HasKey(v.o, "jsonpath") => v.o["jsonpath"].t = "str"
    /\ \A k \in {"and", "or"} :
          HasKey(v.o, k) =>
             /\ v.o[k].t = "arr"
             /\ \A i \in 1..Len(v.o[k].a) : UnmarshalOK(v.o[k].a[i])

RECURSIVE JSONQuery(_)
JSONQuery(v) ==
    [ JSONPath |-> IF HasKey(v.o, "jsonpath") THEN v.o["jsonpath"].s ELSE "",
      And |-> IF HasKey(v.o, "and")
              THEN [i \in 1..Len(v.o["and"].a) |-> JSONQuery(v.o["and"].a[i])]
              ELSE <<>>,
      Or |-> IF HasKey(v.o, "or")
             THEN [i \in 1..Len(v.o["or"].a) |-> JSONQuery(v.o["or"].a[i])]
             ELSE <<>> ]

\* ------------------------------------------------------ the select query
\* a bun.SelectQuery: projected columns, the vector bound into the dist
\* expression, the WHERE conditions (joined with AND), ORDER BY and LIMIT
Cond(kind, arg) == [kind |-> kind, arg |-> arg]

BuildMessagesSelectQuery(q) ==
    [ columns |-> {"message"} \cup
                  (IF q.Type = SearchTypeMMR THEN {"embedding"} ELSE {}),
      vector |-> NilVec,
      where |-> <<>>,
      order |-> "",
      limit |-> 0 ]

\* parseJSONQuery: the filter tree becomes one parenthesised condition
ParseJSONQuery(dbq, jq) ==
    [dbq EXCEPT !.where = Append(@, Cond("tree", jq))]

\* variant: end_date is ignored
DateFiltersStartOnly(dbq, m) ==
    IF HasKey(m, "start_date")
    THEN [dbq EXCEPT !.where = Append(@, Cond("created_ge", m["start_date"]))]
    ELSE dbq

AddMessageDateFilters(dbq, m) ==
    LET a == IF HasKey(m, "start_date")
             THEN [dbq EXCEPT !.where = Append(@, Cond("created_ge", m["start_date"]))]
             ELSE dbq
    IN  IF HasKey(m, "end_date")
        THEN [a EXCEPT !.where = Append(@, Cond("created_le", m["end_date"]))]
        ELSE a

\* returns [ok, q]
ApplyMessagesMetadataFilter(dbq, m) ==
    IF HasKey(m, "where") /\ ~(MarshalOK(m["where"]) /\ UnmarshalOK(m["where"]))
    THEN [ok |-> FALSE, q |-> dbq]
    ELSE [ok |-> TRUE,
          q |-> AddMessageDateFilters(
                   IF HasKey(m, "where")
                   THEN ParseJSONQuery(dbq, JSONQuery(m["where"]))
                   ELSE dbq, m)]

\* variant: the sort ignores the search text
SortAlwaysByCreation(searchText) == "m.created_at DESC"

AddMessagesSortQuery(searchText) ==
    IF searchText # "" THEN "dist DESC" ELSE "m.created_at DESC"

AddMessagesVectorColumn(dbq, vec) ==
    [dbq EXCEPT !.columns = @ \cup {"dist"}, !.vector = vec]

\* variant: the soft-delete exclusion is missing
SessionFilterOnly(dbq, sid) ==
    [dbq EXCEPT !.where = Append(@, Cond("session", JStr(sid)))]

\* mandatory constraints: the session scope and the soft-delete exclusion
SessionAndDeletedFilter(dbq, sid) ==
    [dbq EXCEPT !.where = @ \o <<Cond("session", JStr(sid)), Cond("not_deleted", Absent)>>]

\* variant: limit 0 is not replaced by the default
EffectiveLimitNoDefault(l) == l

EffectiveLimit(l) == IF l = 0 THEN DefaultMemorySearchLimit ELSE l

\* variant: no candidate pool for MMR
StorageLimitNoPool(type, l) == l

StorageLimit(type, l) ==
    IF type = SearchTypeMMR THEN l * DefaultMMRMultiplier ELSE l

EffectiveLambda(q) ==
    IF q.Type = SearchTypeMMR /\ q.MMRLambda = 0 THEN DefaultMMRLambda ELSE q.MMRLambda

\* ------------------------------------------------------ the storage engine
RECURSIVE EvalJQ(_, _)
EvalJQ(jq, row) ==
    /\ jq.JSONPath = "" \/ jq.JSONPath \in row.paths
    /\ \A i \in 1..Len(jq.And) : EvalJQ(jq.And[i], row)
    /\ Len(jq.Or) = 0 \/ \E i \in 1..Len(jq.Or) : EvalJQ(jq.Or[i], row)

EvalCond(c, row) ==
    CASE c.kind = "tree" -> EvalJQ(c.arg, row)
      [] c.kind = "created_ge" -> row.created_at >= c.arg.n
      [] c.kind = "created_le" -> row.created_at <= c.arg.n
      [] c.kind = "session" -> row.session_id = c.arg.s
      [] c.kind = "not_deleted" -> ~row.deleted

Matches(dbq, row) == \A i \in 1..Len(dbq.where) : EvalCond(dbq.where[i], row)

\* a row mapped into a MemorySearchResult: a column that is not projected
\* leaves the field at its zero value
ScanRow(dbq, row) ==
    [ uuid |-> row.uuid,
      Dist |-> IF "dist" \in dbq.columns
               THEN (IF row.undefScore THEN NaN ELSE F(Dot(row.embedding, dbq.vector)))
               ELSE F(0),
      Embedding |-> IF "embedding" \in dbq.columns THEN row.embedding ELSE NilVec ]

\* the engine's ORDER BY ... DESC: NaN sorts above every number
Before(dbq, a, b) ==
    IF dbq.order = "dist DESC"
    THEN IsNaN(a.Dist) \/ (~IsNaN(b.Dist) /\ a.Dist.v >= b.Dist.v)
    ELSE Row(a.uuid).created_at >= Row(b.uuid).created_at

\* every order of S the ORDER BY allows (ties in any order)
RECURSIVE SortedSeqs(_, _)
SortedSeqs(dbq, S) ==
    IF S = {} THEN { <<>> }
    ELSE UNION { { <<r>> \o t : t \in SortedSeqs(dbq, S \ {r}) } :
                 r \in { x \in S : \A y \in S : Before(dbq, x, y) } }

\* LIMIT n; a limit of 0 leaves the query without a LIMIT clause
Take(s, n) == IF n <= 0 \/ Len(s) <= n THEN s ELSE SubSeq(s, 1, n)

\* the result sets a successful scan can return
ExecuteMessagesSearchScan(dbq) ==
    { Take(s, dbq.limit) :
        s \in SortedSeqs(dbq, { ScanRow(dbq, r) : r \in { x \in Table : Matches(dbq, x) } }) }

\* variant: NaN rows are dropped whatever the metadata
FilterDropsAllNaN(rs, m) == SelectSeq(rs, LAMBDA r : ~IsNaN(r.Dist))

FilterValidMessageSearchResults(rs, m) ==
    SelectSeq(rs, LAMBDA r : ~IsNaN(r.Dist) \/ MapLen(m) > 0)

\* ------------------------------------------------------------------- MMR
SetMax(S) == CHOOSE x \in S : \A y \in S : y <= x

\* score of candidate c, in tenths, against the already selected indexes
MMRScore(qv, embs, lambda, sel, c) ==
    LET rel == Dot(qv, embs[c])
        pen == IF sel = <<>> THEN 0
               ELSE SetMax({ Dot(embs[c], embs[sel[i]]) : i \in 1..Len(sel) })
    IN  lambda * rel - (10 - lambda) * pen

RECURSIVE MMRSelect(_, _, _, _, _)
MMRSelect(qv, embs, lambda, k, sel) ==
    LET rest == { c \in 1..Len(embs) : \A i \in 1..Len(sel) : sel[i] # c }
    IN  IF Len(sel) >= k \/ rest = {} THEN sel
        ELSE LET best == CHOOSE c \in rest : \A d \in rest :
                            \/ MMRScore(qv, embs, lambda, sel, c) > MMRScore(qv, embs, lambda, sel, d)
                            \/ /\ MMRScore(qv, embs, lambda, sel, c) = MMRScore(qv, embs, lambda, sel, d)
                               /\ c <= d
             IN  MMRSelect(qv, embs, lambda, k, Append(sel, best))

\* search.MaximalMarginalRelevance: [ok, idxs]
MaximalMarginalRelevance(qv, embs, lambda, k) ==
    IF \/ (Len(embs) = 0 /\ k > 0)
       \/ \E i \in 1..Len(embs) : Len(embs[i]) # Len(qv)
    THEN [ok |-> FALSE, idxs |-> <<>>]
    ELSE [ok |-> TRUE, idxs |-> MMRSelect(qv, embs, lambda, k, <<>>)]

\* rerankMMR: [ok, results]
RerankMMR(rs, qv, lambda, k) ==
    LET embeddingList == [i \in 1..Len(rs) |-> rs[i].Embedding]
        r == MaximalMarginalRelevance(qv, embeddingList, lambda, k)
    IN  [ok |-> r.ok,
         results |-> IF r.ok THEN [i \in 1..Len(r.idxs) |-> rs[r.idxs[i]]] ELSE <<>>]

\* variant: a failed rerank hands back the unranked candidates with the error
FinishSearchKeepsPartial(filtered, type, qv, lambda, k) ==
    IF type = SearchTypeMMR
    THEN LET r == RerankMMR(filtered, qv, lambda, k)
         IN  IF r.ok
             THEN [err |-> NoErr, results |-> r.results]
             ELSE [err |-> "error applying mmr", results |-> filtered]
    ELSE [err |-> NoErr, results |-> filtered]

\* lines 88-96 of searchMessages: [err, results]
FinishSearch(filtered, type, qv, lambda, k) ==
    IF type = SearchTypeMMR
    THEN LET r == RerankMMR(filtered, qv, lambda, k)
         IN  IF r.ok
             THEN [err |-> NoErr, results |-> r.results]
             ELSE [err |-> "error applying mmr", results |-> <<>>]
    ELSE [err |-> NoErr, results |-> filtered]

\* variant: the metadata test inverted
IsEmptyQueryInverted(q) == q.Text = "" /\ MapLen(q.Metadata) > 0

\* lines 37-39 of searchMessages
IsEmptyQuery(q) == q.Text = "" /\ MapLen(q.Metadata) = 0

\* ---------------------------------------------------------------- callers
Texts == { "", "project deadline" }
Lambdas == { 0, 3 }
Limits == 0..MaxLimit

Queries ==
    [ isNil : {FALSE}, Text : Texts, Metadata : Metadatas,
      Type : {SearchTypeSimilarity, SearchTypeMMR}, MMRLambda : Lambdas ]

NoArgs == [vec |-> NilVec, cands |-> <<>>, lambda |-> 0, k |-> 0]

VARIABLES
    pc,              \* position of the call: idle, entry, embed, filter, scan, done
    query,           \* the caller's MemorySearchPayload (searchMessages holds a pointer)
    query0,          \* its value when the call was made
    sessionID,
    limit,           \* the limit parameter (reassigned at line 67)
    limit0,          \* its value when the call was made
    dbQuery,
    queryEmbedding,
    results,         \* rows of the scan
    filteredResults, \* output of filterValidMessageSearchResults
    ret,             \* returned results
    err,             \* returned error
    embedCalls,      \* calls of the embedding provider in this search
    resolved,        \* the vector the provider returned
    storageCalls,    \* queries executed in this search
    rerankCalls,     \* calls of rerankMMR in this search
    rerankArgs,      \* arguments of that call
    failed           \* the stage that failed, if one did

vars == << pc, query, query0, sessionID, limit, limit0, dbQuery, queryEmbedding,
           results, filteredResults, ret, err, embedCalls, resolved, storageCalls,
           rerankCalls, rerankArgs, failed >>

locals == << dbQuery, queryEmbedding, results, filteredResults >>
trace == << embedCalls, resolved, storageCalls, rerankCalls, rerankArgs >>
args == << query, query0, sessionID, limit, limit0 >>

EmptyDbQuery == [columns |-> {}, vector |-> NilVec, where |-> <<>>, order |-> "", limit |-> 0]

Init ==
    /\ pc = "idle"
    /\ query = NilQuery /\ query0 = NilQuery
    /\ sessionID = "s1"
    /\ limit = 0 /\ limit0 = 0
    /\ dbQuery = EmptyDbQuery
    /\ queryEmbedding = NilVec
    /\ results = <<>> /\ filteredResults = <<>>
    /\ ret = <<>> /\ err = NoErr
    /\ embedCalls = 0 /\ resolved = NilVec
    /\ storageCalls = 0 /\ rerankCalls = 0 /\ rerankArgs = NoArgs
    /\ failed = "none"

\* a caller builds a payload and calls searchMessages(sessionID, query, limit)
Call(q, sid, l) ==
    /\ pc = "idle"
    /\ pc' = "entry"
    /\ query' = q /\ query0' = q
    /\ sessionID' = sid
    /\ limit' = l /\ limit0' = l
    /\ dbQuery' = EmptyDbQuery
    /\ queryEmbedding' = NilVec
    /\ results' = <<>> /\ filteredResults' = <<>>
    /\ ret' = <<>> /\ err' = NoErr
    /\ embedCalls' = 0 /\ resolved' = NilVec
    /\ storageCalls' = 0 /\ rerankCalls' = 0 /\ rerankArgs' = NoArgs
    /\ failed' = "none"

\* return nil, err
Fail(stage, e) ==
    /\ pc' = "done"
    /\ err' = e
    /\ ret' = <<>>
    /\ failed' = stage

\* lines 33-41 (a nil appState takes the same return as a nil query)
CheckQuery ==
    /\ pc = "entry"
    /\ IF query.isNil
       THEN Fail("validate", "nil query or appState received") /\ UNCHANGED dbQuery
       ELSE IF IsEmptyQuery(query)
       THEN Fail("validate", "empty query") /\ UNCHANGED dbQuery
       ELSE /\ dbQuery' = BuildMessagesSelectQuery(query)
            /\ pc' = "embed"
            /\ UNCHANGED << err, ret, failed >>
    /\ UNCHANGED << args, trace, queryEmbedding, results, filteredResults >>

\* lines 44-49: addMessagesVectorColumn calls the embedding provider
EmbedQuery ==
    /\ pc = "embed"
    /\ \/ /\ query.Text = ""
          /\ pc' = "filter"
          /\ UNCHANGED << dbQuery, queryEmbedding, embedCalls, resolved, err, ret, failed >>
       \/ /\ query.Text # ""
          /\ embedCalls' = embedCalls + 1
          /\ \/ \E v \in QueryVectors :
                  /\ resolved' = v
                  /\ queryEmbedding' = v
                  /\ dbQuery' = AddMessagesVectorColumn(dbQuery, v)
                  /\ pc' = "filter"
                  /\ UNCHANGED << err, ret, failed >>
             \/ /\ Fail("embedding", "error adding vector column")
                /\ UNCHANGED << dbQuery, queryEmbedding, resolved >>
    /\ UNCHANGED << args, results, filteredResults, storageCalls, rerankCalls, rerankArgs >>

\* lines 50-79: metadata filter, mandatory constraints, sort, limit
AssembleQuery ==
    /\ pc = "filter"
    /\ LET m == query.Metadata
           f == IF MapLen(m) > 0
                THEN ApplyMessagesMetadataFilter(dbQuery, m)
                ELSE [ok |-> TRUE, q |-> dbQuery]
           l == EffectiveLimit(limit)
       IN  IF ~f.ok
           THEN /\ Fail("filter", "error applying metadata filter")
                /\ UNCHANGED << dbQuery, limit, query >>
           ELSE /\ dbQuery' = [SessionAndDeletedFilter(f.q, sessionID) EXCEPT
                                 !.order = AddMessagesSortQuery(query.Text),
                                 !.limit = StorageLimit(query.Type, l)]
                /\ limit' = l
                /\ query' = [query EXCEPT !.MMRLambda = EffectiveLambda(query)]
                /\ pc' = "scan"
                /\ UNCHANGED << err, ret, failed >>
    /\ UNCHANGED << query0, sessionID, limit0, trace, queryEmbedding, results, filteredResults >>

\* lines 81-96: the scan, the NaN filter, the rerank, the return
ScanAndFinish ==
    /\ pc = "scan"
    /\ storageCalls' = storageCalls + 1
    /\ \/ /\ Fail("storage", "memory searchMessages failed")
          /\ UNCHANGED << results, filteredResults, rerankCalls, rerankArgs >>
       \/ \E rs \in ExecuteMessagesSearchScan(dbQuery) :
             LET fr == FilterValidMessageSearchResults(rs, query.Metadata)
                 out == FinishSearch(fr, query.Type, queryEmbedding, query.MMRLambda, limit)
             IN  /\ results' = rs
                 /\ filteredResults' = fr
                 /\ IF query.Type = SearchTypeMMR
                    THEN /\ rerankCalls' = rerankCalls + 1
                         /\ rerankArgs' = [vec |-> queryEmbedding, cands |-> fr,
                                           lambda |-> query.MMRLambda, k |-> limit]
                    ELSE UNCHANGED << rerankCalls, rerankArgs >>
                 /\ pc' = "done"
                 /\ err' = out.err
                 /\ ret' = out.results
                 /\ failed' = IF out.err = NoErr THEN "none" ELSE "rerank"
    /\ UNCHANGED << args, dbQuery, queryEmbedding, embedCalls, resolved >>

\* the caller takes the result and drops the payload; the frame is gone
Return ==
    /\ pc = "done"
    /\ pc' = "idle"
    /\ query' = NilQuery /\ query0' = NilQuery
    /\ sessionID' = "s1"
    /\ limit' = 0 /\ limit0' = 0
    /\ dbQuery' = EmptyDbQuery
    /\ queryEmbedding' = NilVec
    /\ results' = <<>> /\ filteredResults' = <<>>
    /\ ret' = <<>> /\ err' = NoErr
    /\ embedCalls' = 0 /\ resolved' = NilVec
    /\ storageCalls' = 0 /\ rerankCalls' = 0 /\ rerankArgs' = NoArgs
    /\ failed' = "none"

Next ==
    \/ \E q \in Queries \cup {NilQuery}, sid \in Sessions, l \in Limits : Call(q, sid, l)
    \/ CheckQuery
    \/ EmbedQuery
    \/ AssembleQuery
    \/ ScanAndFinish
    \/ Return

Spec == Init /\ [][Next]_vars

\* ------------------------------------------------------------- properties
InCall == pc # "idle" /\ ~query0.isNil
Finished == pc = "done" /\ ~query0.isNil
Succeeded == Finished /\ err = NoErr

\* C1: a query with empty text and an empty metadata filter is rejected with
\* an error and no results, and neither the embedding provider nor the
\* storage engine is called for it at any point of the call.
C1_EmptyQueryRejected ==
    (InCall /\ query0.Text = "" /\ DOMAIN query0.Metadata = {}) =>
        /\ pc \in {"entry", "done"}
        /\ embedCalls = 0 /\ storageCalls = 0 /\ rerankCalls = 0
        /\ pc = "done" => (err # NoErr /\ ret = <<>>)

C1_Witness ==
    /\ Finished /\ query0.Text = "" /\ DOMAIN query0.Metadata = {}
    /\ err = "empty query" /\ ret = <<>>

\* C2: a search in which a stage failed returns an error and an empty
\* result sequence, and no later stage ran: no storage query after a failed
\* embedding or filter compilation, no rerank after a failed scan.
C2_NoPartialSuccess ==
    Finished =>
        /\ failed # "none" => (err # NoErr /\ ret = <<>>)
        /\ err # NoErr => (failed # "none" /\ ret = <<>>)
        /\ failed \in {"validate", "embedding", "filter"} =>
              (storageCalls = 0 /\ rerankCalls = 0)
        /\ failed = "storage" => rerankCalls = 0
        /\ failed = "validate" => embedCalls = 0

\* a rerank that failed on a non-empty candidate list
C2_Witness ==
    /\ Finished /\ failed = "rerank" /\ Len(filteredResults) > 0
    /\ err = "error applying mmr" /\ ret = <<>>

\* no later result has a larger distance than an earlier one
NonIncreasing(rs) ==
    \A i, j \in 1..Len(rs) : i < j => ~FloatLess(rs[i].Dist, rs[j].Dist)

\* C3 as stated: a similarity search with limit L returns at most L results,
\* in non-increasing distance; without a metadata filter no distance is NaN.
C3_Original ==
    (Succeeded /\ query0.Type = SearchTypeSimilarity) =>
        /\ Len(ret) <= limit0
        /\ NonIncreasing(ret)
        /\ DOMAIN query0.Metadata = {} => \A i \in 1..Len(ret) : ~IsNaN(ret[i].Dist)

\* C3 amended: the bound is L for L > 0 and the default limit for L = 0.
C3_SimilarityBounded ==
    (Succeeded /\ query0.Type = SearchTypeSimilarity) =>
        /\ Len(ret) <= (IF limit0 = 0 THEN DefaultMemorySearchLimit ELSE limit0)
        /\ NonIncreasing(ret)
        /\ DOMAIN query0.Metadata = {} => \A i \in 1..Len(ret) : ~IsNaN(ret[i].Dist)

\* a text-only search cut at its limit, with rows of different distances
C3_Witness ==
    /\ Succeeded /\ query0.Type = SearchTypeSimilarity
    /\ query0.Text # "" /\ DOMAIN query0.Metadata = {}
    /\ limit0 = 2 /\ Len(ret) = 2
    /\ FloatLess(ret[2].Dist, ret[1].Dist)

\* the query of this call has been assembled (and perhaps executed)
Assembled == InCall /\ (pc = "scan" \/ storageCalls > 0)
\* the query of this call has been executed and the scan succeeded
Scanned == Finished /\ storageCalls > 0 /\ failed # "storage"
HasCond(c) == \E i \in 1..Len(dbQuery.where) : dbQuery.where[i] = c
EffL == IF limit0 = 0 THEN DefaultMemorySearchLimit ELSE limit0

\* C4: an MMR search with effective limit L requests L * poolMultiplier rows,
\* asks the reranker for k = L and returns at most L results, L being at
\* most the requested pool; any other search requests exactly L rows.
C4_MMRPool ==
    /\ Assembled =>
          /\ query0.Type = SearchTypeMMR => dbQuery.limit = EffL * DefaultMMRMultiplier
          /\ query0.Type # SearchTypeMMR => dbQuery.limit = EffL
          /\ EffL <= dbQuery.limit
    /\ Scanned => Len(results) <= dbQuery.limit
    /\ (InCall /\ rerankCalls > 0) =>
          /\ rerankArgs.k = EffL
          /\ Len(rerankArgs.cands) <= EffL * DefaultMMRMultiplier
    /\ (Succeeded /\ query0.Type = SearchTypeMMR) => Len(ret) <= EffL

\* an MMR search whose pool is larger than its limit and is cut down to it
C4_Witness ==
    /\ Succeeded /\ query0.Type = SearchTypeMMR
    /\ limit0 = 2 /\ dbQuery.limit = 4 /\ Len(results) = 4
    /\ rerankArgs.k = 2 /\ Len(ret) = 2

\* C5: a search without text is ordered by creation time, never by distance,
\* and the validator keeps every scanned row, in order, whenever the metadata
\* filter is non-empty; with an empty filter it drops exactly the NaN rows.
C5_MetadataOnlyKeepsRows ==
    /\ (Assembled /\ query0.Text = "") => dbQuery.order = "m.created_at DESC"
    /\ (Scanned /\ query0.Text = "") =>
          \A i, j \in 1..Len(results) :
             i < j => Row(results[i].uuid).created_at >= Row(results[j].uuid).created_at
    /\ (Scanned /\ DOMAIN query0.Metadata # {}) => filteredResults = results
    /\ (Scanned /\ DOMAIN query0.Metadata = {}) =>
          filteredResults = SelectSeq(results, LAMBDA r : ~r.Dist.nan)

\* a metadata-only search that returned several rows
C5_Witness ==
    /\ Succeeded /\ query0.Text = "" /\ DOMAIN query0.Metadata # {}
    /\ Len(results) >= 2 /\ filteredResults = results /\ ret = results

\* C6 as stated: the caller's payload has, at every point of a call, the
\* value it had when the call was made.
C6_QueryImmutable == InCall => query = query0

\* C7: limit 0 stands for the default 10: a similarity search then requests
\* 10 rows, an MMR search 10 * poolMultiplier rows and k = 10; a non-zero
\* limit is the storage limit (times the multiplier for MMR) and the k.
C7_DefaultLimit ==
    /\ (Assembled /\ limit0 = 0) =>
          dbQuery.limit = IF query0.Type = SearchTypeMMR THEN 10 * DefaultMMRMultiplier ELSE 10
    /\ (Assembled /\ limit0 # 0) =>
          dbQuery.limit = IF query0.Type = SearchTypeMMR
                          THEN limit0 * DefaultMMRMultiplier ELSE limit0
    /\ (InCall /\ rerankCalls > 0) =>
          rerankArgs.k = IF limit0 = 0 THEN 10 ELSE limit0

\* an MMR search with limit 0 that reranks 11 candidates down to 10
C7_Witness ==
    /\ Succeeded /\ limit0 = 0 /\ query0.Type = SearchTypeMMR
    /\ dbQuery.limit = 20 /\ rerankArgs.k = 10
    /\ Len(rerankArgs.cands) = 11 /\ Len(ret) = 10

\* C8: start_date and end_date of the metadata are each a condition of the
\* executed query, with or without a "where" tree, and every scanned row
\* was created within the two bounds (inclusive).
C8_DateBounds ==
    /\ (Assembled /\ HasKey(query0.Metadata, "start_date")) =>
          HasCond(Cond("created_ge", query0.Metadata["start_date"]))
    /\ (Assembled /\ HasKey(query0.Metadata, "end_date")) =>
          HasCond(Cond("created_le", query0.Metadata["end_date"]))
    /\ (Scanned /\ HasKey(query0.Metadata, "start_date")) =>
          \A i \in 1..Len(results) :
             Row(results[i].uuid).created_at >= query0.Metadata["start_date"].n
    /\ (Scanned /\ HasKey(query0.Metadata, "end_date")) =>
          \A i \in 1..Len(results) :
             Row(results[i].uuid).created_at <= query0.Metadata["end_date"].n

\* both bounds and no "where": exactly the rows 2, 3, 4 of the session
C8_Witness ==
    /\ Succeeded /\ ~HasKey(query0.Metadata, "where")
    /\ HasKey(query0.Metadata, "start_date") /\ HasKey(query0.Metadata, "end_date")
    /\ query0.Metadata["start_date"].n = 2 /\ query0.Metadata["end_date"].n = 4
    /\ Len(results) = 3
    /\ \E i \in 1..Len(results) : Row(results[i].uuid).created_at = 4

\* C9: every executed query carries the session scope and the soft-delete
\* exclusion, so every scanned or returned row belongs to the requested
\* session and is not deleted, whatever the filter tree.
C9_SessionAndNotDeleted ==
    /\ Assembled =>
          /\ HasCond(Cond("session", JStr(sessionID)))
          /\ HasCond(Cond("not_deleted", Absent))
    /\ Finished =>
          \A rs \in {results, ret} : \A i \in 1..Len(rs) :
             /\ Row(rs[i].uuid).session_id = sessionID
             /\ ~Row(rs[i].uuid).deleted

\* a search with an OR tree that deleted rows and rows of the other session match
C9_Witness ==
    /\ Succeeded /\ HasKey(query0.Metadata, "where")
    /\ query0.Metadata["where"] = WhereOr
    /\ Len(ret) > 0
    /\ \E r \in Table : r.deleted /\ r.session_id = sessionID /\ r.paths # {}
    /\ \E r \in Table : ~r.deleted /\ r.session_id # sessionID /\ r.paths # {}

\* C10 as stated: the reranker is only called with the vector the embedding
\* provider returned in this call, never with an empty one, and every
\* candidate carries its stored embedding.
C10_RerankVectorResolved ==
    (InCall /\ rerankCalls > 0) =>
        /\ embedCalls > 0
        /\ rerankArgs.vec # NilVec
        /\ rerankArgs.vec = resolved
        /\ \A i \in 1..Len(rerankArgs.cands) :
              rerankArgs.cands[i].Embedding = Row(rerankArgs.cands[i].uuid).embedding

====
